---------------------------- MODULE Spec2Model ----------------------------
(***************************************************************************)
(* A model of src/src/cuboid.rs: the CuboidBuilder (an accumulated 4x4     *)
(* transform), its transform calls, build_vertices and build.              *)
(*                                                                         *)
(* Numbers.  The source computes in f32.  The model computes in exact      *)
(* rational arithmetic: a number is a pair <<n, d>> in lowest terms with   *)
(* d > 0, and <<0, 0>> stands for a non-finite value (the result of a      *)
(* division by zero), which every operation propagates.  An angle is given *)
(* by its cosine and sine (cgmath's Rad::sin_cos), drawn from angles whose *)
(* cosine and sine are rational.  A normalised vector is kept exactly, as  *)
(* the primitive integer direction dir and the squared length len2 of dir: *)
(* its components are dir[i] / sqrt(len2).  Rounding of f32 is therefore   *)
(* outside the model.                                                      *)
(*                                                                         *)
(* Matrices are column-major as in cgmath: a Matrix4 is a record of its    *)
(* four columns x, y, z, w, each a 4-tuple; a Matrix3 has columns x, y, z. *)
(***************************************************************************)
EXTENDS Integers, Sequences, FiniteSets, TLC

VARIABLES
    matrix,      \* CuboidBuilder.matrix of the builder the caller holds
    phase,       \* "builder": the caller holds a builder; "consumed": build(self) took it
    ops,         \* the transform calls made on the builder since new(), in call order
    result,      \* what the last build_vertices(&self) on this builder returned
    previous,    \* what the build_vertices call before it returned (same builder, no transform between)
    built,       \* what build(self, display) returned
    allocs       \* what VertexBuffer::new answered to each request build made, in order

vars == <<matrix, phase, ops, result, previous, built, allocs>>

(***************************************************************************)
(* Bounds of the model.                                                    *)
(***************************************************************************)
MaxOps == 2

-----------------------------------------------------------------------------
(***************************************************************************)
(* Exact arithmetic standing for f32.                                      *)
(***************************************************************************)
Abs(a) == IF a < 0 THEN -a ELSE a

RECURSIVE GCD(_, _)
GCD(a, b) == IF b = 0 THEN a ELSE GCD(b, a % b)

Rat(n, d) ==
    IF d = 0 THEN <<0, 0>>
    ELSE LET g == GCD(Abs(n), Abs(d))
             s == IF d < 0 THEN -1 ELSE 1
         IN  <<(s * n) \div g, (s * d) \div g>>

R(n) == <<n, 1>>

\* The first cases of each operation are shortcuts for integers, 0 and 1; they give
\* what the general case gives.
RAdd(a, b) ==
    IF a[2] = 1 /\ b[2] = 1 THEN <<a[1] + b[1], 1>>
    ELSE Rat(a[1] * b[2] + b[1] * a[2], a[2] * b[2])

RSub(a, b) ==
    IF a[2] = 1 /\ b[2] = 1 THEN <<a[1] - b[1], 1>>
    ELSE Rat(a[1] * b[2] - b[1] * a[2], a[2] * b[2])

RMul(a, b) ==
    IF a[2] = 1 /\ b[2] = 1 THEN <<a[1] * b[1], 1>>
    ELSE IF (a[1] = 0 /\ a[2] = 1 /\ b[2] # 0) \/ (b[1] = 0 /\ b[2] = 1 /\ a[2] # 0) THEN <<0, 1>>
    ELSE Rat(a[1] * b[1], a[2] * b[2])

RDiv(a, b) ==
    IF b[1] = 1 /\ b[2] = 1 THEN a
    ELSE Rat(a[1] * b[2], a[2] * b[1])

RNeg(a)    == <<-a[1], a[2]>>
RAbs(a)    == <<Abs(a[1]), a[2]>>
RIsZero(a) == a[2] # 0 /\ a[1] = 0
RFinite(a) == a[2] # 0

Zero == R(0)
One  == R(1)

-----------------------------------------------------------------------------
(***************************************************************************)
(* cgmath vectors and matrices.                                            *)
(***************************************************************************)
Dot3(a, b) == RAdd(RAdd(RMul(a[1], b[1]), RMul(a[2], b[2])), RMul(a[3], b[3]))

Dot4(a, b) == RAdd(RAdd(RAdd(RMul(a[1], b[1]), RMul(a[2], b[2])),
                        RMul(a[3], b[3])), RMul(a[4], b[4]))

Cross(a, b) ==
    << RSub(RMul(a[2], b[3]), RMul(a[3], b[2])),
       RSub(RMul(a[3], b[1]), RMul(a[1], b[3])),
       RSub(RMul(a[1], b[2]), RMul(a[2], b[1])) >>

VSub3(a, b) == << RSub(a[1], b[1]), RSub(a[2], b[2]), RSub(a[3], b[3]) >>
VAdd3(a, b) == << RAdd(a[1], b[1]), RAdd(a[2], b[2]), RAdd(a[3], b[3]) >>
VDiv3(a, s) == << RDiv(a[1], s), RDiv(a[2], s), RDiv(a[3], s) >>

\* Vector4::truncate
truncate(v) == << v[1], v[2], v[3] >>

\* Matrix4::identity
Identity4 ==
    [ x |-> <<One, Zero, Zero, Zero>>, y |-> <<Zero, One, Zero, Zero>>,
      z |-> <<Zero, Zero, One, Zero>>, w |-> <<Zero, Zero, Zero, One>> ]

\* Matrix3::identity
Identity3 ==
    [ x |-> <<One, Zero, Zero>>, y |-> <<Zero, One, Zero>>, z |-> <<Zero, Zero, One>> ]

\* Row i of a matrix given by its columns.
Row4(m, i) == << m.x[i], m.y[i], m.z[i], m.w[i] >>
Row3(m, i) == << m.x[i], m.y[i], m.z[i] >>

\* Matrix4 * Vector4
MulVec4(m, v) ==
    << Dot4(Row4(m, 1), v), Dot4(Row4(m, 2), v), Dot4(Row4(m, 3), v), Dot4(Row4(m, 4), v) >>

\* Matrix3 * Vector3
MulVec3(m, v) == << Dot3(Row3(m, 1), v), Dot3(Row3(m, 2), v), Dot3(Row3(m, 3), v) >>

\* Matrix4 * Matrix4: the columns of a * b are a * (the columns of b).
MatMul(a, b) ==
    [ x |-> MulVec4(a, b.x), y |-> MulVec4(a, b.y),
      z |-> MulVec4(a, b.z), w |-> MulVec4(a, b.w) ]

\* Matrix4::from_nonuniform_scale
from_nonuniform_scale(sx, sy, sz) ==
    [ x |-> <<sx, Zero, Zero, Zero>>, y |-> <<Zero, sy, Zero, Zero>>,
      z |-> <<Zero, Zero, sz, Zero>>, w |-> <<Zero, Zero, Zero, One>> ]

\* from_translation with the vector written into the bottom row instead of the
\* last column (the matrix transposed).
from_translation_in_rows(v) ==
    [ x |-> <<One, Zero, Zero, v[1]>>, y |-> <<Zero, One, Zero, v[2]>>,
      z |-> <<Zero, Zero, One, v[3]>>, w |-> <<Zero, Zero, Zero, One>> ]

\* Matrix4::from_translation
from_translation(v) ==
    [ x |-> <<One, Zero, Zero, Zero>>, y |-> <<Zero, One, Zero, Zero>>,
      z |-> <<Zero, Zero, One, Zero>>, w |-> <<v[1], v[2], v[3], One>> ]

\* Matrix3::from_angle_x / y / z of an angle with cosine a.c and sine a.s
from_angle_x(a) ==
    [ x |-> <<One, Zero, Zero>>, y |-> <<Zero, a.c, a.s>>, z |-> <<Zero, RNeg(a.s), a.c>> ]

from_angle_y(a) ==
    [ x |-> <<a.c, Zero, RNeg(a.s)>>, y |-> <<Zero, One, Zero>>, z |-> <<a.s, Zero, a.c>> ]

from_angle_z(a) ==
    [ x |-> <<a.c, a.s, Zero>>, y |-> <<RNeg(a.s), a.c, Zero>>, z |-> <<Zero, Zero, One>> ]

\* Matrix4::from(Matrix3)
Matrix4From3(m) ==
    [ x |-> <<m.x[1], m.x[2], m.x[3], Zero>>, y |-> <<m.y[1], m.y[2], m.y[3], Zero>>,
      z |-> <<m.z[1], m.z[2], m.z[3], Zero>>, w |-> <<Zero, Zero, Zero, One>> ]

\* Matrix3::from_cols
from_cols(c0, c1, c2) == [ x |-> c0, y |-> c1, z |-> c2 ]

\* Matrix3::transpose
transpose(m) == [ x |-> Row3(m, 1), y |-> Row3(m, 2), z |-> Row3(m, 3) ]

\* Matrix3::determinant
determinant(m) ==
    RAdd(RSub(RMul(m.x[1], RSub(RMul(m.y[2], m.z[3]), RMul(m.z[2], m.y[3]))),
              RMul(m.y[1], RSub(RMul(m.x[2], m.z[3]), RMul(m.z[2], m.x[3])))),
         RMul(m.z[1], RSub(RMul(m.x[2], m.y[3]), RMul(m.y[2], m.x[3]))))

\* Matrix3::invert: None when the determinant is zero.
invert(m) ==
    LET det == determinant(m)
    IN  IF RIsZero(det) THEN [ some |-> FALSE ]
        ELSE [ some |-> TRUE,
               val  |-> transpose(from_cols(VDiv3(Cross(m.y, m.z), det),
                                            VDiv3(Cross(m.z, m.x), det),
                                            VDiv3(Cross(m.x, m.y), det))) ]

\* Option::unwrap_or
unwrap_or(opt, dflt) == IF opt.some THEN opt.val ELSE dflt

\* Point3::from_homogeneous: the first three components times 1 / w.
from_homogeneous(v) ==
    LET inv == RDiv(One, v[4])
    IN  << RMul(v[1], inv), RMul(v[2], inv), RMul(v[3], inv) >>

\* InnerSpace::normalize: v / |v|, kept exactly as a primitive integer direction
\* and its squared length (the zero vector and non-finite input give no direction).
normalize(v) ==
    IF ~(RFinite(v[1]) /\ RFinite(v[2]) /\ RFinite(v[3]))
    THEN [ dir |-> <<0, 0, 0>>, len2 |-> 0 ]
    ELSE LET m1 == v[1][1] * v[2][2] * v[3][2]
             m2 == v[2][1] * v[1][2] * v[3][2]
             m3 == v[3][1] * v[1][2] * v[2][2]
             g  == GCD(GCD(Abs(m1), Abs(m2)), Abs(m3))
         IN  IF g = 0 THEN [ dir |-> <<0, 0, 0>>, len2 |-> 0 ]
             ELSE LET a == m1 \div g
                      b == m2 \div g
                      c == m3 \div g
                  IN  [ dir |-> <<a, b, c>>, len2 |-> a * a + b * b + c * c ]

-----------------------------------------------------------------------------
(***************************************************************************)
(* build_vertices.                                                         *)
(***************************************************************************)
\* The lookup tables (0-based in the source, read here through At0).
index_lut ==
    << 0, 4, 1, 5,
       6, 2, 7, 3,
       0, 2, 4, 6,
       5, 7, 1, 3,
       2, 0, 3, 1,
       4, 6, 5, 7 >>

poly_lut == << 0, 1, 2, 2, 1, 3 >>

num_sides == 6

verts_per_side == 6

\* s[i] of a 0-based array
At0(s, i) == s[i + 1]

\* coord & 2, coord & 1 and (coord >> 1) & 2 on a small non-negative integer
BitAnd2(c) == 2 * ((c \div 2) % 2)
BitAnd1(c) == c % 2
Shr1And2(c) == 2 * ((c \div 4) % 2)

Half == Rat(1, 2)

\* side_normal with the sign reversed: 1.0 - ((side % 2) * 2) as f32.
side_normal_inward(side) ==
    [ <<Zero, Zero, Zero>> EXCEPT ![(side \div 2) + 1] = RSub(One, R((side % 2) * 2)) ]

\* let mut normal = Vector3::new(0.0, 0.0, 0.0); normal[side / 2] = ((side % 2) * 2) as f32 - 1.0;
side_normal(side) ==
    [ <<Zero, Zero, Zero>> EXCEPT ![(side \div 2) + 1] = RSub(R((side % 2) * 2), One) ]

\* coord_of without the stride of 4 corners per side: index_lut[poly_lut[vert] + side].
coord_of_unstrided(side, vert) == At0(index_lut, At0(poly_lut, vert) + side)

\* let coord = index_lut[poly_lut[vert] + (side * 4)];
coord_of(side, vert) == At0(index_lut, At0(poly_lut, vert) + (side * 4))

\* vpos_of without the factor 0.5.
vpos_of_unhalved(coord) ==
    << R(BitAnd2(coord) - 1), R(BitAnd1(coord) * 2 - 1), R(Shr1And2(coord) - 1), One >>

\* let vpos = Vector4::new(...)
vpos_of(coord) ==
    << RMul(R(BitAnd2(coord) - 1), Half),
       RMul(R(BitAnd1(coord) * 2 - 1), Half),
       RMul(R(Shr1And2(coord) - 1), Half),
       One >>

\* normal_matrix as the 3x3 part itself, without inverse and transpose.
normal_matrix_linear(m) == from_cols(truncate(m.x), truncate(m.y), truncate(m.z))

\* normal_matrix falling back to the zero matrix instead of the identity.
normal_matrix_zero_fallback(m) ==
    transpose(unwrap_or(invert(from_cols(truncate(m.x), truncate(m.y), truncate(m.z))),
                        [ x |-> <<Zero, Zero, Zero>>, y |-> <<Zero, Zero, Zero>>,
                          z |-> <<Zero, Zero, Zero>> ]))

\* The normal transformation matrix: the inverse of the 3x3 part (the identity
\* when there is none), transposed.
normal_matrix(m) ==
    transpose(unwrap_or(invert(from_cols(truncate(m.x), truncate(m.y), truncate(m.z))),
                        Identity3))

\* Point3::from_homogeneous(self.matrix * vpos) for the corner `coord`
position_of(m, coord) == from_homogeneous(MulVec4(m, vpos_of(coord)))

\* position_of for coord = c .. 7, in order.  The position pushed for (side, vert)
\* depends on them through coord alone, so it is evaluated once per corner.
RECURSIVE corner_positions(_, _)
corner_positions(m, c) ==
    IF c > 7 THEN << >> ELSE << position_of(m, c) >> \o corner_positions(m, c + 1)

\* vertex_of with the texcoord taken from vert instead of poly_lut[vert].
vertex_of_vert_texcoord(pos, n, side, vert) ==
    [ position |-> At0(pos, coord_of(side, vert)),
      normal   |-> n,
      texcoord |-> << R(vert % 2), R(vert \div 2) >> ]

\* The Vertex pushed for (side, vert); n is the value of
\* (normal_matrix * normal).normalize(), which does not depend on vert.
vertex_of(pos, n, side, vert) ==
    [ position |-> At0(pos, coord_of(side, vert)),
      normal   |-> n,
      texcoord |-> << R(At0(poly_lut, vert) % 2), R(At0(poly_lut, vert) \div 2) >> ]

\* The inner loop: the verts_per_side vertices pushed for one side.
side_vertices(pos, nm, side) ==
    LET n == normalize(MulVec3(nm, side_normal(side)))
    IN  [ j \in 1..verts_per_side |-> vertex_of(pos, n, side, j - 1) ]

\* The outer loop, from `side` on: each side appends its vertices in order.
RECURSIVE push_sides(_, _, _)
push_sides(pos, nm, side) ==
    IF side >= num_sides THEN << >>
    ELSE side_vertices(pos, nm, side) \o push_sides(pos, nm, side + 1)

\* The vector build_vertices returns for the matrix m.
vertices_of(m) == push_sides(corner_positions(m, 0), normal_matrix(m), 0)

\* build_vertices(&self) -> Result<Vec<Vertex>, ShapeCreationError>
build_vertices_of(m) == [ tag |-> "Ok", val |-> vertices_of(m) ]

NoResult == [ tag |-> "None" ]

-----------------------------------------------------------------------------
(***************************************************************************)
(* The inputs of the calls.                                                *)
(***************************************************************************)
\* (x, y, z) of scale: uniform, non-uniform, with a zero factor, with a negative factor
ScaleArgs ==
    { <<R(2), R(2), R(2)>>, <<R(2), One, One>>, <<One, R(2), R(3)>>,
      <<Zero, One, One>>, <<R(-1), One, One>> }

\* (x, y, z) of translate
TranslateArgs == { <<One, Zero, Zero>>, <<R(-2), R(3), Rat(1, 2)>> }

\* radians of rotate_x / y / z, by sin_cos: atan(4/3), whose cosine is 3/5 and sine 4/5
Atan43 == [ c |-> Rat(3, 5), s |-> Rat(4, 5) ]

Angles == { Atan43 }

\* What VertexBuffer::new answers on the display handed to build: the buffer, or a
\* glium::vertex::BufferCreationError
Displays == { "Ok", "FormatNotSupported", "OutOfMemory" }

-----------------------------------------------------------------------------
(***************************************************************************)
(* The builder.                                                            *)
(***************************************************************************)
\* CuboidBuilder::new() / Default::default(): the state after construction.
Init ==
    /\ matrix = Identity4
    /\ phase = "builder"
    /\ ops = << >>
    /\ result = NoResult
    /\ previous = NoResult
    /\ built = NoResult
    /\ allocs = << >>

\* A transform call moves the builder: what the caller got from the old one is dropped.
Moved(op) ==
    /\ phase = "builder"
    /\ Len(ops) < MaxOps
    /\ ops' = Append(ops, op)
    /\ result' = NoResult
    /\ previous' = NoResult
    /\ UNCHANGED <<phase, built, allocs>>

\* scale multiplying on the right: self.matrix * from_nonuniform_scale(x, y, z).
scale_postmultiplied(x, y, z) ==
    /\ matrix' = MatMul(matrix, from_nonuniform_scale(x, y, z))
    /\ Moved([ op |-> "scale", arg |-> <<x, y, z>> ])

scale(x, y, z) ==
    /\ matrix' = MatMul(from_nonuniform_scale(x, y, z), matrix)
    /\ Moved([ op |-> "scale", arg |-> <<x, y, z>> ])

translate(x, y, z) ==
    /\ matrix' = MatMul(from_translation(<<x, y, z>>), matrix)
    /\ Moved([ op |-> "translate", arg |-> <<x, y, z>> ])

rotate_x(radians) ==
    /\ matrix' = MatMul(Matrix4From3(from_angle_x(radians)), matrix)
    /\ Moved([ op |-> "rotate_x", arg |-> radians ])

rotate_y(radians) ==
    /\ matrix' = MatMul(Matrix4From3(from_angle_y(radians)), matrix)
    /\ Moved([ op |-> "rotate_y", arg |-> radians ])

rotate_z(radians) ==
    /\ matrix' = MatMul(Matrix4From3(from_angle_z(radians)), matrix)
    /\ Moved([ op |-> "rotate_z", arg |-> radians ])

\* build_vertices taking the transform out of the builder (the matrix is left as
\* the identity).
build_vertices_resetting ==
    /\ phase = "builder"
    /\ previous = NoResult
    /\ previous' = result
    /\ result' = build_vertices_of(matrix)
    /\ matrix' = Identity4
    /\ UNCHANGED <<phase, ops, built, allocs>>

\* build_vertices(&self): the caller keeps the builder and, with the new answer,
\* the one before it.
build_vertices ==
    /\ phase = "builder"
    /\ previous = NoResult
    /\ previous' = result
    /\ result' = build_vertices_of(matrix)
    /\ UNCHANGED <<matrix, phase, ops, built, allocs>>

\* From<glium::vertex::BufferCreationError> for ShapeCreationError, applied by `?`
ShapeCreationErrorFrom(e) == [ kind |-> "ResourceCreationFailure", cause |-> e ]

\* VertexBuffer::<Vertex>::new(display, vertices)
VertexBufferNew(display, vertices) ==
    IF display = "Ok" THEN [ tag |-> "Ok", val |-> [ data |-> vertices ] ]
    ELSE [ tag |-> "Err", err |-> display ]

\* build asking the backend a second time when the first request is rejected.
build_retrying ==
    /\ phase = "builder"
    /\ LET vertices == build_vertices_of(matrix)
       IN  \E display \in Displays : \E second \in Displays :
             LET first == VertexBufferNew(display, vertices.val)
                 vbuffer == IF first.tag = "Err" THEN VertexBufferNew(second, vertices.val)
                            ELSE first
             IN  /\ allocs' = IF first.tag = "Err" THEN <<display, second>> ELSE <<display>>
                 /\ built' = IF vbuffer.tag = "Err"
                             THEN [ tag |-> "Err", err |-> ShapeCreationErrorFrom(vbuffer.err) ]
                             ELSE [ tag |-> "Ok", val |-> [ vertices |-> vbuffer.val ] ]
    /\ phase' = "consumed"
    /\ result' = NoResult
    /\ previous' = NoResult
    /\ UNCHANGED <<matrix, ops>>

\* build(self, display), for any display: the vertices first (`?` on an Ok), then
\* one allocation, whose Err returns at once, converted; else
\* Ok(Cuboid { vertices: buffer }).  The builder is moved into the call: what the
\* caller got from it is dropped.
build ==
    /\ phase = "builder"
    /\ LET vertices == build_vertices_of(matrix)
       IN  \E display \in Displays :
             IF vertices.tag # "Ok"
             THEN /\ built' = vertices
                  /\ allocs' = allocs
             ELSE LET vbuffer == VertexBufferNew(display, vertices.val)
                  IN  /\ allocs' = Append(allocs, display)
                      /\ built' = IF vbuffer.tag = "Err"
                                  THEN [ tag |-> "Err", err |-> ShapeCreationErrorFrom(vbuffer.err) ]
                                  ELSE [ tag |-> "Ok", val |-> [ vertices |-> vbuffer.val ] ]
    /\ phase' = "consumed"
    /\ result' = NoResult
    /\ previous' = NoResult
    /\ UNCHANGED <<matrix, ops>>

\* CuboidBuilder::new() again, once build has consumed the builder.
new ==
    /\ phase = "consumed"
    /\ matrix' = Identity4
    /\ phase' = "builder"
    /\ ops' = << >>
    /\ result' = NoResult
    /\ previous' = NoResult
    /\ built' = NoResult
    /\ allocs' = << >>

Next ==
    \/ \E a \in ScaleArgs : scale(a[1], a[2], a[3])
    \/ \E a \in TranslateArgs : translate(a[1], a[2], a[3])
    \/ \E r \in Angles : rotate_x(r)
    \/ \E r \in Angles : rotate_y(r)
    \/ \E r \in Angles : rotate_z(r)
    \/ build_vertices
    \/ build
    \/ new

Spec == Init /\ [][Next]_vars

-----------------------------------------------------------------------------
(***************************************************************************)
(* What the claims speak of.                                               *)
(***************************************************************************)
Sides == 0..(num_sides - 1)
Verts == 0..(verts_per_side - 1)

\* The index, from 1, of vertex `vert` of side `side` in the returned sequence.
Idx(side, vert) == side * verts_per_side + vert + 1

\* The local corner (x, y, z) the vertex (side, vert) is made from.
LocalCorner(side, vert) == truncate(vpos_of(coord_of(side, vert)))

RPositive(a) == a[2] > 0 /\ a[1] > 0

IsScale(o)     == o.op = "scale"
PositiveScale(o) == IsScale(o) /\ \A k \in 1..3 : RPositive(o.arg[k])

\* Every scale call so far had strictly positive factors.
PositiveFactors == \A i \in 1..Len(ops) : IsScale(ops[i]) => PositiveScale(ops[i])

\* Every call so far was a scale with strictly positive factors.
OnlyPositiveScales == \A i \in 1..Len(ops) : PositiveScale(ops[i])

\* One transform call applied to a point, as plain geometry.
ApplyOp(o, p) ==
    CASE o.op = "scale"     -> << RMul(o.arg[1], p[1]), RMul(o.arg[2], p[2]), RMul(o.arg[3], p[3]) >>
      [] o.op = "translate" -> VAdd3(p, o.arg)
      [] o.op = "rotate_x"  -> << p[1],
                                  RSub(RMul(o.arg.c, p[2]), RMul(o.arg.s, p[3])),
                                  RAdd(RMul(o.arg.s, p[2]), RMul(o.arg.c, p[3])) >>
      [] o.op = "rotate_y"  -> << RAdd(RMul(o.arg.c, p[1]), RMul(o.arg.s, p[3])),
                                  p[2],
                                  RSub(RMul(o.arg.c, p[3]), RMul(o.arg.s, p[1])) >>
      [] o.op = "rotate_z"  -> << RSub(RMul(o.arg.c, p[1]), RMul(o.arg.s, p[2])),
                                  RAdd(RMul(o.arg.s, p[1]), RMul(o.arg.c, p[2])),
                                  p[3] >>

\* The calls s[k], s[k+1], ... applied to p one after the other, first call first.
RECURSIVE ApplyInOrder(_, _, _)
ApplyInOrder(s, k, p) ==
    IF k > Len(s) THEN p ELSE ApplyInOrder(s, k + 1, ApplyOp(s[k], p))

\* The elementary matrix of one call.
OpMatrix(o) ==
    CASE o.op = "scale"     -> from_nonuniform_scale(o.arg[1], o.arg[2], o.arg[3])
      [] o.op = "translate" -> from_translation(o.arg)
      [] o.op = "rotate_x"  -> Matrix4From3(from_angle_x(o.arg))
      [] o.op = "rotate_y"  -> Matrix4From3(from_angle_y(o.arg))
      [] o.op = "rotate_z"  -> Matrix4From3(from_angle_z(o.arg))

\* op_n * ... * op_2 * op_1 for the calls s = <<op_1, ..., op_n>>.
RECURSIVE Composed(_)
Composed(s) ==
    IF s = << >> THEN Identity4
    ELSE MatMul(OpMatrix(s[Len(s)]), Composed(SubSeq(s, 1, Len(s) - 1)))

Scale211     == [ op |-> "scale", arg |-> <<R(2), One, One>> ]
Translate100 == [ op |-> "translate", arg |-> <<One, Zero, Zero>> ]

\* The 3x3 linear part of the accumulated matrix.
Linear == from_cols(truncate(matrix.x), truncate(matrix.y), truncate(matrix.z))

Singular == RIsZero(determinant(Linear))

\* C1.  Once build_vertices has answered for a transform whose scale calls all had
\* strictly positive factors (the identity included), each of the 12 consecutive
\* triangles carries three equal normals, equal to the unit vector of
\* (v1 - v0) x (v2 - v0), and that cross product points away from the cuboid's
\* centre: the triangle is counter-clockwise seen from outside.
C1_FacetedCcw ==
    (result.tag = "Ok" /\ PositiveFactors) =>
        \A t \in 0..11 :
            LET a  == result.val[3 * t + 1]
                b  == result.val[3 * t + 2]
                c  == result.val[3 * t + 3]
                n  == Cross(VSub3(b.position, a.position), VSub3(c.position, a.position))
                u  == normalize(n)
            IN  /\ u.len2 > 0
                /\ a.normal = u /\ b.normal = u /\ c.normal = u
                /\ RPositive(Dot3(n, VSub3(a.position, truncate(matrix.w))))

C1_Witness ==
    /\ result.tag = "Ok"
    /\ ops = << [ op |-> "rotate_z", arg |-> Atan43 ],
                [ op |-> "scale", arg |-> <<One, R(2), R(3)>> ] >>
    /\ result.val[1].normal.len2 > 1

\* C2.  The accumulated matrix is op_n * ... * op_1 for the calls op_1 ... op_n made
\* so far; every generated position is the local corner with the calls applied in
\* call order; and scale(2,1,1).translate(1,0,0) gives positions that differ from
\* those of translate(1,0,0).scale(2,1,1).
C2_LeftMultiply ==
    /\ matrix = Composed(ops)
    /\ result.tag = "Ok" =>
         \A side \in Sides : \A vert \in Verts :
            result.val[Idx(side, vert)].position = ApplyInOrder(ops, 1, LocalCorner(side, vert))
    /\ (result.tag = "Ok" /\ ops = <<Scale211, Translate100>>) =>
         \E side \in Sides : \E vert \in Verts :
            result.val[Idx(side, vert)].position #
                ApplyInOrder(<<Translate100, Scale211>>, 1, LocalCorner(side, vert))

C2_Witness ==
    /\ result.tag = "Ok"
    /\ ops = <<Scale211, Translate100>>
    /\ result.val[1].position = << Zero, Rat(-1, 2), Rat(-1, 2) >>

\* The local corners (0 .. 7) of face k: those at -0.5 (even k) or +0.5 (odd k) on
\* axis k div 2.
FaceCorners(k) ==
    { c \in 0..7 : vpos_of(c)[(k \div 2) + 1] = RMul(R(2 * (k % 2) - 1), Half) }

\* C3.  build_vertices never answers Err: it answers Ok with 36 vertices, the six
\* vertices of face k at indices 6k .. 6k+5 being the images of the four local
\* corners of face k (coordinate -0.5 or +0.5 on axis k div 2), as two triangles
\* that share the corners 1 and 2, with one normal per face.
C3_AlwaysOk36 ==
    /\ result.tag \in {"None", "Ok"}
    /\ built.tag # "Err" \/ built.err.kind = "ResourceCreationFailure"
    /\ result.tag = "Ok" =>
         /\ Len(result.val) = 36
         /\ \A k \in Sides :
              LET v(j) == result.val[Idx(k, j)]
              IN  /\ { v(j).position : j \in Verts } =
                        { ApplyInOrder(ops, 1, truncate(vpos_of(c))) : c \in FaceCorners(k) }
                  /\ v(2).position = v(3).position
                  /\ v(1).position = v(4).position
                  /\ \A j \in Verts : v(j).normal = v(0).normal

C3_Witness ==
    /\ result.tag = "Ok"
    /\ Len(result.val) = 36
    /\ Len(ops) = 2
    /\ Singular

\* |p + a / sqrt(q)| >= |p| for a fraction p and integers a, q > 0: that is
\* a (2p + a / sqrt(q)) >= 0.
OutwardOnAxis(p, a, q) ==
    \/ a = 0
    \/ (a > 0 /\ p[1] >= 0)
    \/ (a < 0 /\ p[1] <= 0)
    \/ 4 * p[1] * p[1] * q <= a * a * p[2] * p[2]

\* C4.  After scale calls with strictly positive factors only, every vertex has, on
\* each axis, |position + normal| >= |position|.
C4_OutwardNormals ==
    (result.tag = "Ok" /\ OnlyPositiveScales) =>
        \A i \in 1..Len(result.val) : \A k \in 1..3 :
            /\ result.val[i].normal.len2 > 0
            /\ OutwardOnAxis(result.val[i].position[k],
                             result.val[i].normal.dir[k], result.val[i].normal.len2)

C4_Witness ==
    /\ result.tag = "Ok"
    /\ ops = << [ op |-> "scale", arg |-> <<One, R(2), R(3)>> ], Scale211 >>

\* The sum of the positions vs[lo] .. vs[hi], by halves.
RECURSIVE SumPositions(_, _, _)
SumPositions(vs, lo, hi) ==
    IF lo > hi THEN <<Zero, Zero, Zero>>
    ELSE IF lo = hi THEN vs[lo].position
    ELSE VAdd3(SumPositions(vs, lo, (lo + hi) \div 2),
               SumPositions(vs, ((lo + hi) \div 2) + 1, hi))

\* C5.  With no transform call, every component of every position has absolute
\* value exactly 1/2 and the 36 positions sum to the zero vector.
C5_UnitCube ==
    (result.tag = "Ok" /\ ops = << >>) =>
        /\ Len(result.val) = 36
        /\ \A i \in 1..Len(result.val) : \A k \in 1..3 :
              RAbs(result.val[i].position[k]) = <<1, 2>>
        /\ SumPositions(result.val, 1, Len(result.val)) = <<Zero, Zero, Zero>>

C5_Witness == result.tag = "Ok" /\ ops = << >> /\ matrix = Identity4

QuadCorners == << 0, 1, 2, 2, 1, 3 >>

\* C6.  Whatever the transform, the six vertices of every face carry the texcoords
\* of the quad corners 0,1,2,2,1,3, corner c being (c mod 2, c div 2); so every
\* texcoord is one of (0,0), (1,0), (0,1), (1,1), and all four occur.
C6_Texcoords ==
    result.tag = "Ok" =>
        /\ \A k \in Sides : \A j \in Verts :
              result.val[Idx(k, j)].texcoord =
                  << <<QuadCorners[j + 1] % 2, 1>>, <<QuadCorners[j + 1] \div 2, 1>> >>
        /\ { result.val[i].texcoord : i \in 1..Len(result.val) } =
              { <<Zero, Zero>>, <<One, Zero>>, <<Zero, One>>, <<One, One>> }

C6_Witness ==
    /\ result.tag = "Ok"
    /\ Len(ops) = 2
    /\ ops[1].op = "translate"
    /\ ops[2].op = "rotate_x"

\* C7.  build_vertices leaves the accumulated matrix as the transform calls made it,
\* and a second call with no transform call in between answers exactly what the
\* first answered.
C7_Deterministic ==
    /\ result.tag = "Ok" => matrix = Composed(ops)
    /\ previous.tag = "Ok" => (result.tag = "Ok" /\ result.val = previous.val)

C7_Witness == previous.tag = "Ok" /\ result.tag = "Ok" /\ Len(ops) = 2

\* C8.  build asks the backend for storage exactly once, after generating the 36
\* vertices: a rejected request makes build answer Err carrying that very failure,
\* a granted one makes it answer Ok with a Cuboid wrapping the buffer of the 36
\* vertices; before build nothing is requested.
C8_BuildOutcome ==
    /\ phase = "builder" => (allocs = << >> /\ built = NoResult)
    /\ phase = "consumed" =>
         /\ Len(allocs) = 1
         /\ allocs[1] = "Ok" =>
              /\ built.tag = "Ok"
              /\ Len(built.val.vertices.data) = 36
              /\ built.val.vertices.data = vertices_of(matrix)
         /\ allocs[1] # "Ok" =>
              built = [ tag |-> "Err",
                        err |-> [ kind |-> "ResourceCreationFailure", cause |-> allocs[1] ] ]

C8_Witness == phase = "consumed" /\ built.tag = "Err" /\ built.err.cause = "OutOfMemory"

\* The local unit normal of face k, as integers.
LocalAxis(k) == [ <<0, 0, 0>> EXCEPT ![(k \div 2) + 1] = 2 * (k % 2) - 1 ]

\* C9.  With a non-invertible linear part build_vertices still answers Ok, every
\* vertex of face k carries the untransformed local normal of face k (axis k div 2,
\* -1 for even k, +1 for odd k), and the positions are those the calls give.
C9_SingularFallback ==
    (result.tag # "None" /\ Singular) =>
        /\ result.tag = "Ok"
        /\ \A k \in Sides : \A j \in Verts :
              /\ result.val[Idx(k, j)].normal = [ dir |-> LocalAxis(k), len2 |-> 1 ]
              /\ result.val[Idx(k, j)].position = ApplyInOrder(ops, 1, LocalCorner(k, j))

C9_Witness ==
    /\ result.tag = "Ok"
    /\ ops = << [ op |-> "rotate_z", arg |-> Atan43 ],
                [ op |-> "scale", arg |-> <<Zero, One, One>> ] >>
    /\ Singular

\* C10.  The accumulated matrix is the identity before any transform call and keeps
\* the bottom row (0, 0, 0, 1) after every call; so each transformed corner has
\* w = 1 and each position is (linear part * local corner) + translation column.
C10_Affine ==
    /\ ops = << >> => matrix = Identity4
    /\ Row4(matrix, 4) = << Zero, Zero, Zero, One >>
    /\ result.tag = "Ok" =>
         \A k \in Sides : \A j \in Verts :
            /\ MulVec4(matrix, vpos_of(coord_of(k, j)))[4] = One
            /\ result.val[Idx(k, j)].position =
                  VAdd3(MulVec3(Linear, LocalCorner(k, j)), truncate(matrix.w))

C10_Witness ==
    /\ result.tag = "Ok"
    /\ Len(ops) = 2
    /\ ops[1].op = "rotate_y"
    /\ ops[2].op = "translate"
    /\ truncate(matrix.w) # <<Zero, Zero, Zero>>

=============================================================================
